---- MODULE Spec2Model ----
(***************************************************************************)
(* Selective Repeat sender (A) and receiver (B) of src/sr.c, driven by an  *)
(* unreliable FIFO channel that may lose or corrupt packets.               *)
(*                                                                         *)
(* Buffers keep the C indices 0..WINDOWSIZE-1.  A read outside an array    *)
(* yields any packet of OOBPkts; a write outside an array lands in storage *)
(* the model does not track.  strcmp on two payloads that agree in all 20  *)
(* bytes and hold no NUL runs past the arrays: it may report either        *)
(* result.                                                                 *)
(***************************************************************************)
EXTENDS Integers, Sequences, FiniteSets, TLC

\* ---- program constants -------------------------------------------------
WINDOWSIZE == 6
SEQSPACE == 2 * WINDOWSIZE
NOTINUSE == -1
PAYLOADLEN == 20

\* ---- channel simulator constants ---------------------------------------
\* value the simulator writes over a corrupted header field
CORRUPTNUM == 999999
\* byte the simulator writes over the first payload byte ('Z')
CORRUPTBYTE == 90
\* '0', the byte B_input fills an ACK payload with
ZEROCHAR == 48

\* ---- bounds of the model -----------------------------------------------
\* messages A_output accepts in Spec, in SenderSpec and in SpecA (Scenario A)
MaxMsgs == 3
MaxSend == 6
\* messages A_output accepts in SenderWrapSpec
MaxWrapSend == 4
\* messages A_output accepts in WrapSpec
MaxWrapMsgs == 2
\* how far below zero windowcount is followed in SenderWrapSpec and WrapSpec
MaxUnder == 1
ScenarioMsgs == 6
\* packets in flight per direction
MaxChan == 1
\* rejected submissions counted
MaxFull == 1
\* payloads handed to layer 5
MaxDeliver == 3

\* bytes the application fills a message with: NUL or 'a'
MsgBytes == {0, 97}

VARIABLES
  buffer,        \* A: packets waiting for ACK, index 0..WINDOWSIZE-1
  windowcount,   \* A: number of packets awaiting an ACK
  A_baseseqnum,  \* A: first sequence number of the send window
  A_nextseqnum,  \* A: next sequence number to use
  timerA,        \* A: TRUE while A's timer is running
  window_full,   \* statistics: submissions rejected by A_output
  B_buffer,      \* B: out-of-order packets, index 0..WINDOWSIZE-1
  B_baseseqnum,  \* B: first sequence number of the receive window
  receivelast,   \* B: furthest buffer position received
  chanAB,        \* packets in flight from A to B (FIFO)
  chanBA,        \* packets in flight from B to A (FIFO)
  delivered,     \* history: what B handed to layer 5, in order
  accepted,      \* history: sequence numbers of packets B acknowledged
  orig,          \* history: packet A_output sent for each sequence number
  nmsgs,         \* history: messages A_output accepted
  ackedA         \* history: sequence numbers of the ACKs A_input found uncorrupted

vars == <<buffer, windowcount, A_baseseqnum, A_nextseqnum, timerA, window_full,
          B_buffer, B_baseseqnum, receivelast, chanAB, chanBA,
          delivered, accepted, orig, nmsgs, ackedA>>

senderVars == <<buffer, windowcount, A_baseseqnum, A_nextseqnum, timerA, window_full, orig, nmsgs,
                ackedA>>
receiverVars == <<B_buffer, B_baseseqnum, receivelast, delivered, accepted>>

Slots == 0..(WINDOWSIZE - 1)

SeqNums == 0..(SEQSPACE - 1)

Payload(c) == [i \in 1..PAYLOADLEN |-> c]

Msgs == {Payload(c) : c \in MsgBytes}

\* a zero-initialised struct pkt (static storage)
ZeroPkt == [seqnum |-> 0, acknum |-> 0, checksum |-> 0, payload |-> Payload(0)]

\* what a read past the end (or before the start) of a buffer may return
OOBPkts == {[seqnum |-> 0, acknum |-> a, checksum |-> 0, payload |-> Payload(c)] :
              a \in {NOTINUSE, 0}, c \in MsgBytes}

RECURSIVE SumBytes(_, _)
SumBytes(p, i) == IF i > PAYLOADLEN THEN 0 ELSE p[i] + SumBytes(p, i + 1)

ComputeChecksum(packet) == packet.seqnum + packet.acknum + SumBytes(packet.payload, 1)

\* conversion of an int to bool
ToBool(x) == x # 0

IsCorrupted(packet) ==
  IF packet.checksum = ComputeChecksum(packet) THEN ToBool(-1) ELSE ToBool(0)

\* the cyclic window test shared by A_output, A_input and B_input
InWindow(n, seqfirst) ==
  LET seqlast == (seqfirst + WINDOWSIZE - 1) % SEQSPACE
  IN  \/ (seqfirst <= seqlast /\ n >= seqfirst /\ n <= seqlast)
      \/ (seqfirst > seqlast /\ (n >= seqfirst \/ n <= seqlast))

\* the buffer index shared by A_output, A_input and B_input
WinIndex(n, seqfirst) ==
  IF n >= seqfirst THEN n - seqfirst ELSE WINDOWSIZE - seqfirst + n

\* strcmp(s, "") != 0
NonEmpty(s) == s[1] # 0

\* first position at which strcmp(s, t) stops inside the arrays; 0 if none
RECURSIVE StrStop(_, _, _)
StrStop(s, t, i) ==
  IF i > PAYLOADLEN THEN 0
  ELSE IF s[i] # t[i] \/ s[i] = 0 THEN i
  ELSE StrStop(s, t, i + 1)

\* the possible values of (strcmp(s, t) != 0)
StrDiffers(s, t) ==
  LET k == StrStop(s, t, 1)
  IN  IF k = 0 THEN {TRUE, FALSE} ELSE {s[k] # t[k]}

\* the packets a read of buf[i] may return
ReadSlot(buf, i) == IF i \in Slots THEN {buf[i]} ELSE OOBPkts

\* length of the leading run of slots that belong to ok, as the counting loops
\* of A_input and B_input compute it
PrefixLen(ok) ==
  IF \A i \in Slots : i \in ok THEN WINDOWSIZE
  ELSE CHOOSE i \in Slots : i \notin ok /\ \A j \in 0..(i - 1) : j \in ok

Init ==
  /\ buffer = [i \in Slots |-> ZeroPkt]
  /\ windowcount = 0
  /\ A_baseseqnum = 0
  /\ A_nextseqnum = 0
  /\ timerA = FALSE
  /\ window_full = 0
  /\ B_buffer = [i \in Slots |-> ZeroPkt]
  /\ B_baseseqnum = 0
  /\ receivelast = -1
  /\ chanAB = <<>>
  /\ chanBA = <<>>
  /\ delivered = <<>>
  /\ accepted = {}
  /\ orig = [s \in 0..(SEQSPACE - 1) |-> ZeroPkt]
  /\ nmsgs = 0
  /\ ackedA = {}

\* ---- sender ------------------------------------------------------------

\* the packet A_output builds for a message
MakePkt(seq, message) ==
  LET hdr == [seqnum |-> seq, acknum |-> NOTINUSE, checksum |-> 0, payload |-> message]
  IN  [hdr EXCEPT !.checksum = ComputeChecksum(hdr)]

\* a blocked A_output that also counts the rejected message as outstanding
A_outputBlockedCounts ==
  /\ window_full' = window_full + 1
  /\ windowcount' = windowcount + 1
  /\ UNCHANGED <<buffer, A_baseseqnum, A_nextseqnum, timerA, orig, nmsgs, chanAB>>

\* A_output when the window is full
A_outputBlocked ==
  /\ window_full' = window_full + 1
  /\ UNCHANGED <<buffer, windowcount, A_baseseqnum, A_nextseqnum, timerA,
                 orig, nmsgs, chanAB>>

A_output(message) ==
  LET seqfirst == A_baseseqnum
      sendpkt == MakePkt(A_nextseqnum, message)
      index == WinIndex(A_nextseqnum, seqfirst)
  IN  /\ IF InWindow(A_nextseqnum, seqfirst)
         THEN /\ buffer' = IF index \in Slots THEN [buffer EXCEPT ![index] = sendpkt]
                           ELSE buffer
              /\ windowcount' = windowcount + 1
              /\ chanAB' = Append(chanAB, sendpkt)
              /\ timerA' = IF A_nextseqnum = seqfirst THEN TRUE ELSE timerA
              /\ A_nextseqnum' = (A_nextseqnum + 1) % SEQSPACE
              /\ orig' = [orig EXCEPT ![A_nextseqnum] = sendpkt]
              /\ nmsgs' = nmsgs + 1
              /\ UNCHANGED <<A_baseseqnum, window_full>>
         ELSE A_outputBlocked
      /\ UNCHANGED <<chanBA, receiverVars, ackedA>>

A_timerinterrupt ==
  /\ chanAB' = Append(chanAB, buffer[0])
  /\ timerA' = TRUE
  /\ UNCHANGED <<buffer, windowcount, A_baseseqnum, A_nextseqnum, window_full,
                 orig, nmsgs, ackedA, chanBA, receiverVars>>

\* the test A_input makes for a new (not duplicate) ACK
IsNewAck(slot) == slot.acknum = NOTINUSE

\* the slots the ackcount loop of A_input counts
AckedSlots(buf) ==
  {i \in Slots : buf[i].acknum # NOTINUSE /\ NonEmpty(buf[i].payload)}

\* the "update buffer" loop of A_input; g is what the reads past the array return
ShiftSend(buf, ackcount, g) ==
  [i \in Slots |->
    LET src == IF i + ackcount \in Slots THEN buf[i + ackcount] ELSE g[i + ackcount]
    IN  IF src.acknum = NOTINUSE \/ (buf[i].seqnum + ackcount) % SEQSPACE = A_nextseqnum
        THEN src ELSE buf[i]]

A_input(packet) ==
  LET seqfirst == A_baseseqnum
      index == WinIndex(packet.acknum, seqfirst)
  IN  IF ~IsCorrupted(packet) /\ InWindow(packet.acknum, seqfirst)
      THEN \E slot \in ReadSlot(buffer, index) :
             LET wc1 == IF IsNewAck(slot) THEN windowcount - 1 ELSE windowcount
                 buf1 == IF IsNewAck(slot) /\ index \in Slots
                         THEN [buffer EXCEPT ![index].acknum = packet.acknum]
                         ELSE buffer
             IN  /\ windowcount' = wc1
                 /\ IF packet.acknum = seqfirst
                    THEN LET ackcount == PrefixLen(AckedSlots(buf1))
                         IN  /\ A_baseseqnum' = (A_baseseqnum + ackcount) % SEQSPACE
                             /\ \E g \in [WINDOWSIZE..(WINDOWSIZE - 1 + ackcount) -> OOBPkts] :
                                  buffer' = ShiftSend(buf1, ackcount, g)
                             /\ timerA' = (wc1 > 0)
                    ELSE /\ buffer' = IF index \in Slots
                                      THEN [buf1 EXCEPT ![index].acknum = packet.acknum]
                                      ELSE buf1
                         /\ UNCHANGED <<A_baseseqnum, timerA>>
                 /\ UNCHANGED <<A_nextseqnum, window_full, orig, nmsgs>>
                 /\ ackedA' = ackedA \cup ({packet.acknum} \cap SeqNums)
      ELSE /\ UNCHANGED <<buffer, windowcount, A_baseseqnum, A_nextseqnum, timerA,
                          window_full, orig, nmsgs>>
           /\ ackedA' = IF IsCorrupted(packet) THEN ackedA
                         ELSE ackedA \cup ({packet.acknum} \cap SeqNums)

\* ---- receiver ----------------------------------------------------------

\* a cumulative ACK: it names the receiver's base, not the packet received
AckForBase(packet) ==
  LET hdr == [seqnum |-> NOTINUSE, acknum |-> B_baseseqnum, checksum |-> 0,
              payload |-> Payload(ZEROCHAR)]
  IN  [hdr EXCEPT !.checksum = ComputeChecksum(hdr)]

\* the ACK B_input builds for a received packet
AckFor(packet) ==
  LET hdr == [seqnum |-> NOTINUSE, acknum |-> packet.seqnum, checksum |-> 0,
              payload |-> Payload(ZEROCHAR)]
  IN  [hdr EXCEPT !.checksum = ComputeChecksum(hdr)]

\* the slots the pckcount loop of B_input counts
ReceivedSlots(buf) ==
  {i \in Slots : buf[i].acknum >= 0 /\ NonEmpty(buf[i].payload)}

\* the "update buffer" loop of B_input; g is what the reads past the array return
ShiftRecv(buf, pckcount, last, g) ==
  [i \in Slots |->
    IF i + pckcount <= last + 1
    THEN IF i + pckcount \in Slots THEN buf[i + pckcount] ELSE g[i + pckcount]
    ELSE buf[i]]

B_input(packet) ==
  LET seqfirst == B_baseseqnum
      index == WinIndex(packet.seqnum, seqfirst)
      last == IF receivelast > index THEN receivelast ELSE index
      stored == [packet EXCEPT !.acknum = packet.seqnum]
      buf1 == IF index \in Slots THEN [B_buffer EXCEPT ![index] = stored] ELSE B_buffer
      pckcount == PrefixLen(ReceivedSlots(buf1))
  IN  IF ~IsCorrupted(packet)
      THEN /\ chanBA' = Append(chanBA, AckFor(packet))
           /\ accepted' = accepted \cup {packet.seqnum}
           /\ IF InWindow(packet.seqnum, seqfirst)
              THEN /\ receivelast' = last
                   /\ \E slot \in ReadSlot(B_buffer, index) :
                      \E differs \in StrDiffers(slot.payload, packet.payload) :
                        IF differs
                        THEN /\ delivered' = Append(delivered, [seqnum |-> packet.seqnum,
                                                                payload |-> packet.payload])
                             /\ IF packet.seqnum = seqfirst
                                THEN /\ B_baseseqnum' = (B_baseseqnum + pckcount) % SEQSPACE
                                     /\ \E g \in [WINDOWSIZE..(WINDOWSIZE - 1 + pckcount) -> OOBPkts] :
                                          B_buffer' = ShiftRecv(buf1, pckcount, last, g)
                                ELSE /\ B_buffer' = buf1
                                     /\ UNCHANGED B_baseseqnum
                        ELSE UNCHANGED <<B_buffer, B_baseseqnum, delivered>>
              ELSE UNCHANGED <<B_buffer, B_baseseqnum, receivelast, delivered>>
      ELSE UNCHANGED <<receiverVars, chanBA>>

\* ---- channel, application and timer ------------------------------------

\* the ways the channel corrupts a packet: first payload byte, seqnum or acknum
Corruptions(p) ==
  { [p EXCEPT !.payload[1] = CORRUPTBYTE],
    [p EXCEPT !.seqnum = CORRUPTNUM],
    [p EXCEPT !.acknum = CORRUPTNUM] }

\* B receives the packet c, which the channel made of the oldest one in flight;
\* at most limit payloads are handed to layer 5
ArriveBUpTo(c, limit) ==
  /\ Len(chanBA) < MaxChan
  /\ Len(delivered) < limit
  /\ chanAB' = Tail(chanAB)
  /\ B_input(c)
  /\ UNCHANGED senderVars

ArriveB(c) == ArriveBUpTo(c, MaxDeliver)

\* A receives the packet c, which the channel made of the oldest one in flight
ArriveA(c) ==
  /\ chanBA' = Tail(chanBA)
  /\ A_input(c)
  /\ UNCHANGED <<chanAB, receiverVars>>

\* layer 5 hands A a message; at most limit messages are accepted
SubmitUpTo(limit) ==
  /\ IF InWindow(A_nextseqnum, A_baseseqnum)
     THEN nmsgs < limit /\ Len(chanAB) < MaxChan
     ELSE window_full < MaxFull
  /\ \E m \in Msgs : A_output(m)

Submit == SubmitUpTo(MaxMsgs)

\* A's timer goes off
Timeout ==
  /\ timerA
  /\ Len(chanAB) < MaxChan
  /\ A_timerinterrupt

\* what the channel may make of the oldest packet in flight to B, and to A
ArrivalsB == IF chanAB = <<>> THEN {} ELSE {Head(chanAB)} \cup Corruptions(Head(chanAB))

ArrivalsA == IF chanBA = <<>> THEN {} ELSE {Head(chanBA)} \cup Corruptions(Head(chanBA))

DeliverAB == chanAB # <<>> /\ ArriveB(Head(chanAB))

DeliverBA == chanBA # <<>> /\ ArriveA(Head(chanBA))

CorruptAB == chanAB # <<>> /\ \E c \in Corruptions(Head(chanAB)) : ArriveB(c)

CorruptBA == chanBA # <<>> /\ \E c \in Corruptions(Head(chanBA)) : ArriveA(c)

LoseAB ==
  /\ chanAB # <<>>
  /\ chanAB' = Tail(chanAB)
  /\ UNCHANGED <<senderVars, receiverVars, chanBA>>

LoseBA ==
  /\ chanBA # <<>>
  /\ chanBA' = Tail(chanBA)
  /\ UNCHANGED <<senderVars, receiverVars, chanAB>>

Next ==
  \/ Submit
  \/ Timeout
  \/ DeliverAB
  \/ DeliverBA
  \/ CorruptAB
  \/ CorruptBA
  \/ LoseAB
  \/ LoseBA

Spec == Init /\ [][Next]_vars

\* ---- the sender alone ---------------------------------------------------
\* What A can observe of the channel and of B: a packet A sent either vanishes
\* or comes back as the ACK B_input builds for what arrived, in the order sent
\* (the ACK does not depend on B's state).

SubmitS == SubmitUpTo(MaxSend)

\* the packets that may reach A when B is handed c
Echoes(c) ==
  IF IsCorrupted(c) THEN {} ELSE {AckFor(c)} \cup Corruptions(AckFor(c))

RoundTrip ==
  /\ chanAB # <<>>
  /\ \E c \in ArrivalsB :
       \E a \in Echoes(c) :
         /\ chanAB' = Tail(chanAB)
         /\ A_input(a)
         /\ UNCHANGED <<chanBA, receiverVars>>

SenderNext ==
  \/ SubmitS
  \/ Timeout
  \/ RoundTrip
  \/ LoseAB

SenderSpec == Init /\ [][SenderNext]_vars

\* ---- the sender where the window wraps ----------------------------------
\* The last base before the sequence numbers start again at 0: its window
\* [base, base+WINDOWSIZE-1] wraps right after its first sequence number.
WrapStart == SEQSPACE - 1

\* The state after WrapStart messages went through one at a time (sent, received,
\* acknowledged) with the reads past the arrays returning zero bytes: both windows
\* stand at WrapStart, nothing is outstanding and the buffers hold no packet.
\* The history variables start afresh.
InitWrap ==
  /\ buffer = [i \in Slots |-> ZeroPkt]
  /\ windowcount = 0
  /\ A_baseseqnum = WrapStart
  /\ A_nextseqnum = WrapStart
  /\ timerA = FALSE
  /\ window_full = 0
  /\ B_buffer = [i \in Slots |-> ZeroPkt]
  /\ B_baseseqnum = WrapStart
  /\ receivelast = 0
  /\ chanAB = <<>>
  /\ chanBA = <<>>
  /\ delivered = <<>>
  /\ accepted = {}
  /\ orig = [s \in 0..(SEQSPACE - 1) |-> ZeroPkt]
  /\ nmsgs = 0
  /\ ackedA = {}

SubmitW == SubmitUpTo(MaxWrapSend)

\* ACKs are followed until windowcount has fallen MaxUnder below zero
RoundTripW == windowcount > -MaxUnder /\ RoundTrip

SenderWrapNext ==
  \/ SubmitW
  \/ Timeout
  \/ RoundTripW
  \/ LoseAB

SenderWrapSpec == InitWrap /\ [][SenderWrapNext]_vars

\* ---- both sides where the windows wrap ------------------------------------
\* The whole system started from InitWrap: sender, receiver and both channels.

SubmitWB == SubmitUpTo(MaxWrapMsgs)

\* arrivals at A are followed until windowcount has fallen MaxUnder below zero
ArriveAW(c) == windowcount > -MaxUnder /\ ArriveA(c)

DeliverBAW == chanBA # <<>> /\ ArriveAW(Head(chanBA))

CorruptBAW == chanBA # <<>> /\ \E c \in Corruptions(Head(chanBA)) : ArriveAW(c)

WrapNext ==
  \/ SubmitWB
  \/ Timeout
  \/ DeliverAB
  \/ DeliverBAW
  \/ CorruptAB
  \/ CorruptBAW
  \/ LoseAB
  \/ LoseBA

WrapSpec == InitWrap /\ [][WrapNext]_vars

\* ---- Scenario A: a channel that neither loses nor corrupts --------------

SubmitA == SubmitUpTo(ScenarioMsgs)

\* the oldest packet of one direction arrives as it was sent
DeliverIntact ==
  \E side \in {"A", "B"} :
    IF side = "B"
    THEN chanAB # <<>> /\ ArriveBUpTo(Head(chanAB), ScenarioMsgs)
    ELSE chanBA # <<>> /\ ArriveA(Head(chanBA))

NextA ==
  \/ SubmitA
  \/ Timeout
  \/ DeliverIntact

SpecA == Init /\ [][NextA]_vars

\* the same channel, with the timer expiry and every arrival eventually taken
FairSpec ==
  /\ SpecA
  /\ WF_vars(Timeout)
  /\ WF_vars(DeliverIntact)

\* ---- claims --------------------------------------------------------------

\* the number of times sequence number s was handed to layer 5
TimesDelivered(s) == Cardinality({i \in 1..Len(delivered) : delivered[i].seqnum = s})

\* C1: the sequence numbers handed to layer 5 are 0, 1, 2, ... modulo SEQSPACE,
\* each the successor of the one before, with no gap and no repeat.
C1_InOrderDelivery ==
  \A i \in 1..Len(delivered) : delivered[i].seqnum = (i - 1) % SEQSPACE

\* C2: once B has accepted packets with every sequence number 0..k, layer 5 has
\* received each of 0..k exactly once; no accepted sequence number was delivered
\* twice.
C2_ExactlyOnce ==
  /\ \A k \in 0..(SEQSPACE - 1) :
       (\A s \in 0..k : s \in accepted) => \A s \in 0..k : TimesDelivered(s) = 1
  /\ \A s \in accepted : TimesDelivered(s) <= 1

\* C3: a packet whose checksum field differs from the recomputed checksum makes
\* B_input send no ACK, deliver nothing and leave B_baseseqnum, receivelast and
\* B_buffer as they were.
C3_MismatchDropped ==
  [][\A c \in ArrivalsB :
       (ArriveB(c) /\ c.checksum # ComputeChecksum(c))
         => UNCHANGED <<chanBA, delivered, B_baseseqnum, receivelast, B_buffer>>]_vars

\* C4: IsCorrupted(p) is true if and only if p.checksum differs from
\* ComputeChecksum(p), for every packet either side can be handed.
C4_IsCorruptedIffMismatch ==
  \A p \in ArrivalsA \cup ArrivalsB :
    IsCorrupted(p) <=> (p.checksum # ComputeChecksum(p))

\* C5: the sender's outstanding counter stays within 0..WINDOWSIZE in every
\* reachable state.
C5_WindowCountInRange == 0 <= windowcount /\ windowcount <= WINDOWSIZE

\* C6: A_output called with A_nextseqnum outside the window sends no packet,
\* starts no timer, stores nothing, leaves A_baseseqnum, A_nextseqnum and
\* windowcount alone and adds exactly one to window_full.
C6_WindowFullRejects ==
  [][\A m \in Msgs :
       (~InWindow(A_nextseqnum, A_baseseqnum) /\ A_output(m))
         => /\ chanAB' = chanAB
            /\ timerA' = timerA
            /\ buffer' = buffer
            /\ A_baseseqnum' = A_baseseqnum
            /\ A_nextseqnum' = A_nextseqnum
            /\ windowcount' = windowcount
            /\ window_full' = window_full + 1]_vars

\* C6 witness: a submission has been rejected and the window is still full
C6_Witness == window_full > 0 /\ ~InWindow(A_nextseqnum, A_baseseqnum)

\* C7: a timer interrupt hands the channel exactly one packet, the one A_output
\* sent for the current A_baseseqnum, and starts the timer again.
C7_TimeoutResendsBase ==
  [][A_timerinterrupt
       => /\ Len(chanAB') = Len(chanAB) + 1
          /\ chanAB'[Len(chanAB')].seqnum = A_baseseqnum
          /\ chanAB'[Len(chanAB')] = orig[A_baseseqnum]
          /\ timerA']_vars

\* C8: when the six messages of Scenario A have been submitted and every packet
\* has arrived intact, A_baseseqnum is 6, windowcount is 0 and layer 5 has
\* received the sequence numbers 0..5 in order.
C8_ScenarioA ==
  (nmsgs = ScenarioMsgs /\ chanAB = <<>> /\ chanBA = <<>>)
    => /\ A_baseseqnum = ScenarioMsgs
       /\ windowcount = 0
       /\ [i \in 1..Len(delivered) |-> delivered[i].seqnum]
            = [i \in 1..ScenarioMsgs |-> i - 1]

\* C9: every message A_output accepted is eventually retired: A_baseseqnum
\* moves past its sequence number.
C9_EventuallyRetired ==
  \A k \in 0..(ScenarioMsgs - 1) : (nmsgs > k) ~> (A_baseseqnum > k)

\* C10: for every packet for which IsCorrupted returns false, B_input sends
\* exactly one ACK, with acknum the packet's seqnum and seqnum NOTINUSE, inside
\* or outside the window, duplicate or not.
C10_AckEcho ==
  [][\A c \in ArrivalsB :
       (ArriveB(c) /\ ~IsCorrupted(c))
         => /\ Len(chanBA') = Len(chanBA) + 1
            /\ SubSeq(chanBA', 1, Len(chanBA)) = chanBA
            /\ chanBA'[Len(chanBA')].acknum = c.seqnum
            /\ chanBA'[Len(chanBA')].seqnum = NOTINUSE]_vars

\* C10 witness: an ACK is in flight that echoes a sequence number lying outside
\* B's window (the value the channel wrote over the seqnum field).
C10_Witness ==
  /\ chanBA # <<>>
  /\ Head(chanBA).seqnum = NOTINUSE
  /\ Head(chanBA).acknum = CORRUPTNUM
  /\ ~InWindow(CORRUPTNUM, B_baseseqnum)

\* the cyclic window [base, base+WINDOWSIZE-1] mod SEQSPACE
CyclicWindow(n, base) == \E k \in 0..(WINDOWSIZE - 1) : n = (base + k) % SEQSPACE

\* C11: when B_input accepts a packet (IsCorrupted false) whose seqnum lies outside
\* the cyclic window of B_baseseqnum, nothing is delivered and B_baseseqnum,
\* receivelast and B_buffer are unchanged; only the ACK is sent.
C11_OutOfWindowUntouched ==
  [][\A c \in ArrivalsB :
       (ArriveB(c) /\ ~IsCorrupted(c) /\ ~CyclicWindow(c.seqnum, B_baseseqnum))
         => /\ UNCHANGED <<delivered, B_baseseqnum, receivelast, B_buffer>>
            /\ Len(chanBA') = Len(chanBA) + 1]_vars

\* C12: whenever B_input moves B_baseseqnum from b to (b+n) mod SEQSPACE, each of
\* the n sequence numbers b..b+n-1 it passes is one whose packet B has accepted:
\* the receive base never moves past a packet that was not received.
C12_ReceiverSlidesOverReceived ==
  [][\A c \in ArrivalsB :
       (ArriveB(c) /\ B_baseseqnum' # B_baseseqnum)
         => \A k \in 0..(((B_baseseqnum' - B_baseseqnum) % SEQSPACE) - 1) :
              (B_baseseqnum + k) % SEQSPACE \in accepted']_vars

\* sequence number s has been sent by A_output (fewer than SEQSPACE messages sent)
Sent(s) == s < nmsgs

\* C13: whenever A_baseseqnum moves from b to (b+n) mod SEQSPACE, each of the n
\* sequence numbers b..b+n-1 it passes has been sent by A_output: the sender never
\* retires a packet that was not sent, let alone acknowledged.
C13_SenderSlidesOverSent ==
  [][A_baseseqnum' # A_baseseqnum
       => \A k \in 0..(((A_baseseqnum' - A_baseseqnum) % SEQSPACE) - 1) :
            Sent((A_baseseqnum + k) % SEQSPACE)]_vars

\* the offset of sequence number n in the window that starts at base
Offset(n, base) == (n - base) % SEQSPACE

\* A_input is handed the ACK a, which B_input sent for the oldest packet in flight
AckArrives(a) ==
  /\ chanAB # <<>>
  /\ \E c \in ArrivalsB : a \in Echoes(c)
  /\ chanAB' = Tail(chanAB)
  /\ A_input(a)
  /\ UNCHANGED <<chanBA, receiverVars>>

\* the ACKs A_input may be handed in the current state
AcksDue == UNION {Echoes(c) : c \in ArrivalsB}

\* C14: when A_input accepts an ACK whose acknum is inside the send window and is
\* not A_baseseqnum, then A_baseseqnum, A_nextseqnum and the timer are unchanged,
\* no packet is sent, the slot of that acknum gets its marker and no other part of
\* the buffer changes, and windowcount falls by one exactly for a first ACK.
C14_NonBaseAckMarksSlot ==
  [][\A a \in AcksDue :
       (/\ ~IsCorrupted(a)
        /\ CyclicWindow(a.acknum, A_baseseqnum)
        /\ a.acknum # A_baseseqnum
        /\ AckArrives(a))
         => LET idx == Offset(a.acknum, A_baseseqnum)
            IN  /\ UNCHANGED <<A_baseseqnum, A_nextseqnum, timerA>>
                /\ chanAB' = Tail(chanAB)
                /\ buffer' = [buffer EXCEPT ![idx].acknum = a.acknum]
                /\ windowcount' = IF buffer[idx].acknum = NOTINUSE
                                  THEN windowcount - 1 ELSE windowcount]_vars

\* C15: when A_input accepts an ACK for a sequence number for which it has accepted
\* an ACK before, A_baseseqnum, A_nextseqnum, windowcount, the send buffer and the
\* timer are afterwards what they were before.
C15_DuplicateAckIdempotent ==
  [][\A a \in ArrivalsA :
       (/\ ~IsCorrupted(a)
        /\ a.acknum \in ackedA
        /\ ArriveA(a))
         => UNCHANGED <<A_baseseqnum, A_nextseqnum, windowcount, buffer, timerA>>]_vars

\* C16: for every sequence number s sent and not yet retired, the slot at offset
\* (s - A_baseseqnum) mod SEQSPACE holds the packet with seqnum s, and that slot is
\* marked acknowledged if and only if A_input has accepted an ACK for s.
C16_SendBufferAligned ==
  \A k \in Slots :
    k < Offset(A_nextseqnum, A_baseseqnum)
      => LET seq == (A_baseseqnum + k) % SEQSPACE
         IN  /\ buffer[k].seqnum = seq
             /\ (buffer[k].acknum # NOTINUSE) <=> (seq \in ackedA)

\* the index the handlers compute for n is the offset of n in the window
IndexIsOffset(n, base) ==
  /\ WinIndex(n, base) = Offset(n, base)
  /\ WinIndex(n, base) \in Slots

\* C17: for every in-window sequence number n that A_output (n = A_nextseqnum),
\* A_input (n = acknum) or B_input (n = seqnum) handles, also when n < base
\* because the window wraps, the buffer index computed is (n - base) mod SEQSPACE
\* and lies in 0..WINDOWSIZE-1.
C17_IndexUnderWraparound ==
  [][/\ \A m \in Msgs :
          (InWindow(A_nextseqnum, A_baseseqnum) /\ A_output(m))
            => IndexIsOffset(A_nextseqnum, A_baseseqnum)
     /\ \A a \in ArrivalsA :
          (/\ ~IsCorrupted(a)
           /\ a.acknum \in SeqNums
           /\ InWindow(a.acknum, A_baseseqnum)
           /\ ArriveA(a))
            => IndexIsOffset(a.acknum, A_baseseqnum)
     /\ \A c \in ArrivalsB :
          (/\ ~IsCorrupted(c)
           /\ c.seqnum \in SeqNums
           /\ InWindow(c.seqnum, B_baseseqnum)
           /\ ArriveB(c))
            => IndexIsOffset(c.seqnum, B_baseseqnum)]_vars

\* C18: starttimer is called only while the timer is not running and stoptimer only
\* while it is running: A_output starts the timer (for the first packet of the
\* window) with the timer idle, and A_input stops it (on an ACK for the base) with
\* the timer running.
C18_TimerDiscipline ==
  [][/\ \A m \in Msgs :
          (/\ InWindow(A_nextseqnum, A_baseseqnum)
           /\ A_nextseqnum = A_baseseqnum
           /\ A_output(m))
            => ~timerA
     /\ \A a \in ArrivalsA :
          (/\ ~IsCorrupted(a)
           /\ InWindow(a.acknum, A_baseseqnum)
           /\ a.acknum = A_baseseqnum
           /\ ArriveA(a))
            => timerA]_vars

\* C19: between events the timer runs exactly while a packet sent by A_output
\* still waits for its ACK (windowcount > 0).
C19_TimerCoversOldestUnacked ==
  (windowcount > 0) <=> timerA

\* the indices i + ackcount at which the "update buffer" loop of A_input reads
\* buffer: its condition reads buffer[i + ackcount].acknum for every i
SendSlideReads(ackcount) == {i + ackcount : i \in Slots}

\* the indices i + pckcount at which the "update buffer" loop of B_input reads
\* B_buffer: only for the i its condition lets through
RecvSlideReads(pckcount, last) ==
  {i + pckcount : i \in {j \in Slots : j + pckcount <= last + 1}}

\* C20: every slot the window-slide loops of A_input and B_input read or write
\* has an index in 0..WINDOWSIZE-1.
C20_SlideStaysInBuffers ==
  [][/\ \A a \in ArrivalsA :
          (/\ ~IsCorrupted(a)
           /\ InWindow(a.acknum, A_baseseqnum)
           /\ a.acknum = A_baseseqnum
           /\ ArriveA(a))
            => SendSlideReads(Offset(A_baseseqnum', A_baseseqnum)) \subseteq Slots
     /\ \A c \in ArrivalsB :
          (/\ ~IsCorrupted(c)
           /\ InWindow(c.seqnum, B_baseseqnum)
           /\ c.seqnum = B_baseseqnum
           /\ delivered' # delivered
           /\ ArriveB(c))
            => RecvSlideReads(Offset(B_baseseqnum', B_baseseqnum), receivelast')
                 \subseteq Slots]_vars

====
